---------------------------- MODULE Spec2Model ----------------------------
(***************************************************************************)
(* Model of the gofuncs function-adaptation library (package gofuncs).     *)
(*                                                                         *)
(* A Go dynamic value (an interface{}) is a record                         *)
(*     [typ, nil, v, body, elems]                                          *)
(* typ  : its concrete type, a record [kind, name, in, out]; NoType for    *)
(*        the untyped nil                                                  *)
(* nil  : the underlying reference is the null reference                   *)
(* v    : the payload (an integer; for a string, the code point of its     *)
(*        single rune, -1 for the empty string; for a bool, 1 or 0; for a  *)
(*        pointer, channel or map, its address; for a slice, the address   *)
(*        of its element 0)                                                *)
(* body : for a function value, the name of its body                       *)
(* elems: the contents of a slice, array or map, a sequence of [k, e]      *)
(*        (index or key, element), in index order or, for a map, in some   *)
(*        order; for a pointer, its pointee                                *)
(*                                                                         *)
(* One behaviour follows one operation of the package: an adapter is built *)
(* by one of the constructors and then invoked any number of times, or one *)
(* of the plain functions (IsNil, IsNilable, IndexOf, ValueOfKey,          *)
(* PanicOnError, PanicOnError2, Ternary, TernaryOf) is called once.        *)
(***************************************************************************)
EXTENDS Integers, Sequences, FiniteSets, TLC

VARIABLES
    adapter,    \* the constructor that was called ("none" before any)
    curFn,      \* the fn argument given to the constructor
    curFns,     \* the variadic fns given to FilterAll / And / Or; the two
                \* values or suppliers given to Ternary / TernaryOf
    curProbe,   \* the val argument given to MapTo / SupplierOf, EqualTo /
                \* DeepEqualTo, PanicOnError2
    adapted,    \* what the constructor returned, or the fault it raised
    ninv,       \* number of invocations of the returned adapter so far
    lastArg,    \* the argument of the latest invocation; the err of
                \* PanicOnError, the expr of Ternary
    outcome,    \* the outcome of the latest invocation
    calls,      \* the arguments the original callables received during
                \* the latest invocation, in order
    lastElem,   \* the index of the element of FilterAll's slice that was
                \* invoked latest (0 before any)
    curColl,    \* the arrslc / mp argument given to IndexOf / ValueOfKey
    curIndex,   \* the index argument given to IndexOf
    curKey,     \* the key argument given to ValueOfKey
    curDefalt   \* the variadic defalt given to IndexOf / ValueOfKey

vars ==
    <<adapter, curFn, curFns, curProbe, adapted, ninv, lastArg, outcome, calls,
      lastElem, curColl, curIndex, curKey, curDefalt>>

(***************************************************************************)
(* Bounds of the model.                                                    *)
(***************************************************************************)
MaxInvocations == 2
MaxPreds == 2
MaxIndex == 2

(***************************************************************************)
(* The fixed fault messages.                                               *)
(***************************************************************************)
indexOfErrorMsg == "slc must be a slice"
valueOfKeyErrorMsg == "mp must be a map"
filterErrorMsg == "fn must be a non-nil function of one argument of any type that returns bool"
mapErrorMsg == "fn must be a non-nil function of one argument of any type that returns one value of any type"
mapToErrorMsg == "fn must be a non-nil function of one argument of any type that returns one value convertible to type %s"
supplierErrorMsg == "fn must be a non-nil function of no arguments that returns one value of any type"
supplierOfErrorMsg == "fn must be a non-nil function of no arguments that returns one value convertible to type %s"
consumerErrorMsg == "fn must be a non-nil funciton of one argument of any type and no return values"
valNilMsg == "val cannot be nil"
valInterfaceMsg == "val cannot be an interface{} value"

(***************************************************************************)
(* Types.  A type that is not a function type is named; a function type    *)
(* lists the names of its parameter and result types.                      *)
(***************************************************************************)
Numeric == {"int", "int8", "uint8"}

KindOf(name) ==
    CASE name = "int" -> "int"
      [] name = "int8" -> "int8"
      [] name = "uint8" -> "uint8"
      [] name = "string" -> "string"
      [] name = "bool" -> "bool"
      [] name = "MyBool" -> "bool"
      [] name = "*int" -> "ptr"
      [] name = "S" -> "struct"
      [] name = "any" -> "interface"
      [] name = "Stringer" -> "interface"
      [] name = "[]int" -> "slice"
      [] name = "[]string" -> "slice"
      [] name = "IntSlice" -> "slice"
      [] name = "[2]int" -> "array"
      [] name = "[1][]int" -> "array"
      [] name = "map[string]int" -> "map"
      [] name = "chan int" -> "chan"
      [] name = "Box" -> "struct"
      [] name = "*SyntaxError" -> "ptr"
      [] name = "*NumError" -> "ptr"
      [] OTHER -> "invalid"

T(name) == [kind |-> KindOf(name), name |-> name, in |-> <<>>, out |-> <<>>]

FuncOf(in, out) == [kind |-> "func", name |-> "func", in |-> in, out |-> out]

NoType == [kind |-> "invalid", name |-> "", in |-> <<>>, out |-> <<>>]

\* reflect.Kind's enumeration order, which IsNilable's range test relies on.
KindNum(kind) ==
    CASE kind = "invalid" -> 0
      [] kind = "bool" -> 1
      [] kind = "int" -> 2
      [] kind = "int8" -> 3
      [] kind = "uint8" -> 8
      [] kind = "array" -> 17
      [] kind = "chan" -> 18
      [] kind = "func" -> 19
      [] kind = "interface" -> 20
      [] kind = "map" -> 21
      [] kind = "ptr" -> 22
      [] kind = "slice" -> 23
      [] kind = "string" -> 24
      [] kind = "struct" -> 25

\* reflect.Type.Elem, on type names.
Elem(name) ==
    CASE name = "[]int" -> "int"
      [] name = "[]string" -> "string"
      [] name = "IntSlice" -> "int"
      [] name = "[2]int" -> "int"
      [] name = "[1][]int" -> "[]int"
      [] name = "map[string]int" -> "int"
      [] name = "chan int" -> "int"
      [] name = "*int" -> "int"
      [] OTHER -> ""

\* reflect.Type.Len of an array type, on type names.
ArrayLen(name) ==
    CASE name = "[2]int" -> 2
      [] name = "[1][]int" -> 1
      [] OTHER -> 0

(***************************************************************************)
(* Values.                                                                 *)
(***************************************************************************)
NilValue == [typ |-> NoType, nil |-> TRUE, v |-> 0, body |-> "", elems |-> <<>>]

Val(name, n) ==
    [typ |-> T(name), nil |-> FALSE, v |-> n, body |-> "", elems |-> <<>>]

NilPtr == [typ |-> T("*int"), nil |-> TRUE, v |-> 0, body |-> "", elems |-> <<>>]

FnVal(in, result, isNil, body) ==
    [typ |-> FuncOf(in, result), nil |-> isNil, v |-> 0, body |-> body,
     elems |-> <<>>]

IsValid(val) == val.typ.kind # "invalid"

\* The typed nil of a nilable type.
NilOf(name) ==
    [typ |-> T(name), nil |-> TRUE, v |-> 0, body |-> "", elems |-> <<>>]

\* The contents xs (payloads) of a slice or array, indexed from 0.
Indexed(xs) == [i \in 1..Len(xs) |-> [k |-> i - 1, e |-> xs[i]]]

\* A non-nil slice: its element 0 is at address addr, its contents are xs.
SliceVal(name, addr, xs) == [Val(name, addr) EXCEPT !.elems = Indexed(xs)]

\* An array, a value with the contents xs.
ArrayVal(name, xs) == [Val(name, 0) EXCEPT !.elems = Indexed(xs)]

\* A non-nil map at address addr with the entries es, each [k, e].
MapVal(name, addr, es) == [Val(name, addr) EXCEPT !.elems = es]

\* A value that holds one slice: the array [1][]int{s}, or the struct
\* Box{X: s} (type Box struct{ X interface{} }).  The slice is SliceVal
\* ("[]int", addr, xs).
Holding(name, addr, xs) == [Val(name, addr) EXCEPT !.elems = Indexed(xs)]

\* reflect.Type.Comparable.
Comparable(typ) ==
    /\ typ.kind \notin {"slice", "map", "func"}
    /\ typ.kind = "array" => KindOf(Elem(typ.name)) \notin {"slice", "map", "func"}

\* A value of Go's uint, the type of IndexOf's index: top is its most
\* significant bit, low the rest of it (the model keeps low small).
Uint(top, low) == [top |-> top, low |-> low]

NoIndex == Uint(FALSE, 0)

\* Two's-complement wrap of n into the range of a numeric type.  The
\* model's integers stay far inside the 64-bit range of int.
Wrap(n, name) ==
    CASE name = "int8" -> ((n + 128) % 256) - 128
      [] name = "uint8" -> n % 256
      [] OTHER -> n

\* string(rune(n)): the code point, U+FFFD for an invalid one.
RuneString(n) ==
    IF n < 0 \/ n > 1114111 \/ (n >= 55296 /\ n <= 57343) THEN 65533 ELSE n

\* The method sets: every type implements the empty interface, S
\* implements Stringer.
Implements(src, dst) ==
    \/ dst = "any"
    \/ dst = "Stringer" /\ src \in {"S", "Stringer"}

Underlying(name) ==
    CASE name = "MyBool" -> "bool"
      [] name = "IntSlice" -> "[]int"
      [] OTHER -> name

\* reflect.Type.ConvertibleTo, on type names.  A slice type converts to
\* an array type of the same element type.
ConvertibleTo(src, dst) ==
    \/ src \in Numeric /\ dst \in Numeric
    \/ KindOf(src) = "slice" /\ KindOf(dst) = "array" /\ Elem(src) = Elem(dst)
    \/ src \in Numeric /\ KindOf(dst) = "string"
    \/ /\ KindOf(src) # "interface"
       /\ KindOf(dst) # "interface"
       /\ Underlying(src) = Underlying(dst)
    \/ src = dst
    \/ KindOf(dst) = "interface" /\ Implements(src, dst)

\* reflect.Value.Convert: [ok |-> FALSE] is its panic.  A value converted
\* to an interface type keeps its concrete type.  A slice converted to an
\* array gives the first elements of the slice, and panics when the slice
\* is shorter than the array although the types are convertible.
Convert(val, dst) ==
    IF ~IsValid(val)
        THEN [ok |-> FALSE, val |-> NilValue]
    ELSE IF ~ConvertibleTo(val.typ.name, dst)
        THEN [ok |-> FALSE, val |-> NilValue]
    ELSE IF KindOf(dst) = "interface"
        THEN [ok |-> TRUE, val |-> val]
    ELSE IF dst \in Numeric
        THEN [ok |-> TRUE, val |-> Val(dst, Wrap(val.v, dst))]
    ELSE IF KindOf(dst) = "string" /\ val.typ.name \in Numeric
        THEN [ok |-> TRUE, val |-> Val(dst, RuneString(val.v))]
    ELSE IF KindOf(val.typ.name) = "slice" /\ KindOf(dst) = "array"
        THEN IF Len(val.elems) < ArrayLen(dst)
                 THEN [ok |-> FALSE, val |-> NilValue]
             ELSE [ok |-> TRUE,
                   val |-> [Val(dst, 0) EXCEPT
                               !.elems = SubSeq(val.elems, 1, ArrayLen(dst))]]
    ELSE [ok |-> TRUE, val |-> [val EXCEPT !.typ = T(dst)]]

(***************************************************************************)
(* IsNilable and IsNil.                                                    *)
(***************************************************************************)
\* IsNilable with the upper end of its range of kinds one too far.
IsNilableUpToString(val) ==
    IF ~IsValid(val) THEN TRUE
    ELSE LET k == KindNum(val.typ.kind)
         IN  (k >= KindNum("chan")) /\ (k <= KindNum("string"))

IsNilable(val) ==
    IF ~IsValid(val) THEN TRUE
    ELSE LET k == KindNum(val.typ.kind)
         IN  (k >= KindNum("chan")) /\ (k <= KindNum("slice"))

IsNil(val) ==
    IF IsNilable(val) THEN (~IsValid(val)) \/ val.nil
    ELSE FALSE

(***************************************************************************)
(* What a constructor gives back.                                          *)
(*   kind "fault"   : it panicked with msg (the format and its argument)   *)
(*   kind "same"    : it returned f itself                                 *)
(*   kind "wrapper" : it returned a new function closing over f (vfn),     *)
(*                    argTyp and xtyp                                      *)
(*   kind "list"    : FilterAll's slice of adapted predicates              *)
(*   kind "closure" : the closure And / Or / Not returns over list         *)
(* typ is the type of the returned function.                               *)
(***************************************************************************)
NoAdapter ==
    [kind |-> "none", via |-> "", msg |-> <<>>, f |-> NilValue, typ |-> NoType,
     argTyp |-> "", xtyp |-> "", list |-> <<>>]

Faulted(msg) == [NoAdapter EXCEPT !.kind = "fault", !.msg = msg]

Same(f) == [NoAdapter EXCEPT !.kind = "same", !.f = f, !.typ = f.typ]

Wrapped(via, f, argTyp, typ, xtyp) ==
    [NoAdapter EXCEPT !.kind = "wrapper", !.via = via, !.f = f, !.typ = typ,
                      !.argTyp = argTyp, !.xtyp = xtyp]

NumIn(typ) == Len(typ.in)
NumOut(typ) == Len(typ.out)

(***************************************************************************)
(* Filter, Map, Supplier, Consumer.                                        *)
(***************************************************************************)
\* Filter without the type-assertion fast path: it wraps every function.
FilterAlwaysWraps(f) ==
    IF (f.typ.kind # "func") \/ f.nil THEN Faulted(<<filterErrorMsg>>)
    ELSE IF \/ NumIn(f.typ) # 1
            \/ NumOut(f.typ) # 1
            \/ KindOf(f.typ.out[1]) # "bool"
        THEN Faulted(<<filterErrorMsg>>)
    ELSE Wrapped("Filter", f, f.typ.in[1], FuncOf(<<"any">>, <<"bool">>), "bool")

Filter(f) ==
    IF f.typ = FuncOf(<<"any">>, <<"bool">>) THEN Same(f)
    ELSE IF (f.typ.kind # "func") \/ f.nil THEN Faulted(<<filterErrorMsg>>)
    ELSE IF \/ NumIn(f.typ) # 1
            \/ NumOut(f.typ) # 1
            \/ KindOf(f.typ.out[1]) # "bool"
        THEN Faulted(<<filterErrorMsg>>)
    ELSE Wrapped("Filter", f, f.typ.in[1], FuncOf(<<"any">>, <<"bool">>), "bool")

Map(f) ==
    IF f.typ = FuncOf(<<"any">>, <<"any">>) THEN Same(f)
    ELSE IF (f.typ.kind # "func") \/ f.nil THEN Faulted(<<mapErrorMsg>>)
    ELSE IF (NumIn(f.typ) # 1) \/ (NumOut(f.typ) # 1)
        THEN Faulted(<<mapErrorMsg>>)
    ELSE Wrapped("Map", f, f.typ.in[1], FuncOf(<<"any">>, <<"any">>), "any")

\* Supplier that forgets to check the parameter count.
SupplierAnyParams(f) ==
    IF f.typ = FuncOf(<<>>, <<"any">>) THEN Same(f)
    ELSE IF (f.typ.kind # "func") \/ f.nil THEN Faulted(<<supplierErrorMsg>>)
    ELSE IF NumOut(f.typ) # 1 THEN Faulted(<<supplierErrorMsg>>)
    ELSE Wrapped("Supplier", f, "", FuncOf(<<>>, <<"any">>), "any")

Supplier(f) ==
    IF f.typ = FuncOf(<<>>, <<"any">>) THEN Same(f)
    ELSE IF (f.typ.kind # "func") \/ f.nil THEN Faulted(<<supplierErrorMsg>>)
    ELSE IF (NumIn(f.typ) # 0) \/ (NumOut(f.typ) # 1)
        THEN Faulted(<<supplierErrorMsg>>)
    ELSE Wrapped("Supplier", f, "", FuncOf(<<>>, <<"any">>), "any")

Consumer(f) ==
    IF f.typ = FuncOf(<<"any">>, <<>>) THEN Same(f)
    ELSE IF (f.typ.kind # "func") \/ f.nil THEN Faulted(<<consumerErrorMsg>>)
    ELSE IF (NumIn(f.typ) # 1) \/ (NumOut(f.typ) # 0)
        THEN Faulted(<<consumerErrorMsg>>)
    ELSE Wrapped("Consumer", f, f.typ.in[1], FuncOf(<<"any">>, <<>>), "")

(***************************************************************************)
(* MapTo and SupplierOf.  reflect.ValueOf never yields a value of kind     *)
(* Interface, so the probe's kind test cannot succeed.                     *)
(***************************************************************************)
\* MapTo that forgets to check that the result type converts to X.
MapToAnyResult(f, val) ==
    IF IsNil(val) THEN Faulted(<<valNilMsg>>)
    ELSE IF val.typ.kind = "interface" THEN Faulted(<<valInterfaceMsg>>)
    ELSE LET xtyp == val.typ.name
             errMsg == <<mapToErrorMsg, xtyp>>
         IN  IF (f.typ.kind # "func") \/ f.nil THEN Faulted(errMsg)
             ELSE IF (NumIn(f.typ) # 1) \/ (NumOut(f.typ) # 1) THEN Faulted(errMsg)
             ELSE LET argTyp == f.typ.in[1]
                      resTyp == f.typ.out[1]
                  IN  IF (KindOf(argTyp) = "interface") /\ (resTyp = xtyp)
                          THEN Same(f)
                      ELSE Wrapped("MapTo", f, argTyp,
                                   FuncOf(<<"any">>, <<xtyp>>), xtyp)

MapTo(f, val) ==
    IF IsNil(val) THEN Faulted(<<valNilMsg>>)
    ELSE IF val.typ.kind = "interface" THEN Faulted(<<valInterfaceMsg>>)
    ELSE LET xtyp == val.typ.name
             errMsg == <<mapToErrorMsg, xtyp>>
         IN  IF (f.typ.kind # "func") \/ f.nil THEN Faulted(errMsg)
             ELSE IF (NumIn(f.typ) # 1) \/ (NumOut(f.typ) # 1) THEN Faulted(errMsg)
             ELSE LET argTyp == f.typ.in[1]
                      resTyp == f.typ.out[1]
                  IN  IF (KindOf(argTyp) = "interface") /\ (resTyp = xtyp)
                          THEN Same(f)
                      ELSE IF ~ConvertibleTo(resTyp, xtyp) THEN Faulted(errMsg)
                      ELSE Wrapped("MapTo", f, argTyp,
                                   FuncOf(<<"any">>, <<xtyp>>), xtyp)

\* SupplierOf that checks fn before the probe.
SupplierOfFnFirst(f, val) ==
    LET xtyp == val.typ.name
        errMsg == <<supplierOfErrorMsg, xtyp>>
    IN  IF (f.typ.kind # "func") \/ f.nil THEN Faulted(errMsg)
        ELSE IF (NumIn(f.typ) # 0) \/ (NumOut(f.typ) # 1) THEN Faulted(errMsg)
        ELSE IF IsNil(val) THEN Faulted(<<valNilMsg>>)
        ELSE LET resTyp == f.typ.out[1]
             IN  IF resTyp = xtyp THEN Same(f)
                 ELSE IF ~ConvertibleTo(resTyp, xtyp) THEN Faulted(errMsg)
                 ELSE Wrapped("SupplierOf", f, "",
                              FuncOf(<<>>, <<xtyp>>), xtyp)

SupplierOf(f, val) ==
    IF IsNil(val) THEN Faulted(<<valNilMsg>>)
    ELSE IF val.typ.kind = "interface" THEN Faulted(<<valInterfaceMsg>>)
    ELSE LET xtyp == val.typ.name
             errMsg == <<supplierOfErrorMsg, xtyp>>
         IN  IF (f.typ.kind # "func") \/ f.nil THEN Faulted(errMsg)
             ELSE IF (NumIn(f.typ) # 0) \/ (NumOut(f.typ) # 1) THEN Faulted(errMsg)
             ELSE LET resTyp == f.typ.out[1]
                  IN  IF resTyp = xtyp THEN Same(f)
                      ELSE IF ~ConvertibleTo(resTyp, xtyp) THEN Faulted(errMsg)
                      ELSE Wrapped("SupplierOf", f, "",
                                   FuncOf(<<>>, <<xtyp>>), xtyp)

(***************************************************************************)
(* The callables handed to the adapters: the bodies of the test suite.     *)
(*   lt3   : i < 3          ge0 : i >= 0        even : i%2 == 0            *)
(*   dbl   : i * 2          const : a constant  store : keeps its argument *)
(*   one   : return 1       two : return 2                                 *)
(* A body whose parameter is interface{} type-asserts i.(int) first, as    *)
(* the test bodies do, and panics when the assertion fails; store does     *)
(* not.  A body whose parameter is an array works on its element 0, and a  *)
(* body whose result is a slice returns a slice of one element.            *)
(***************************************************************************)
BodyArg(f, a) ==
    IF NumIn(f.typ) = 0 \/ f.body = "store" THEN [ok |-> TRUE, n |-> 0]
    ELSE IF f.typ.in[1] = "any"
        THEN [ok |-> IsValid(a) /\ a.typ.name = "int", n |-> a.v]
    ELSE IF KindOf(f.typ.in[1]) = "array"
        THEN [ok |-> TRUE, n |-> a.elems[1].e]
    ELSE [ok |-> TRUE, n |-> a.v]

BodyRaw(body, n) ==
    CASE body = "lt3" -> IF n < 3 THEN 1 ELSE 0
      [] body = "ge0" -> IF n >= 0 THEN 1 ELSE 0
      [] body = "even" -> IF n % 2 = 0 THEN 1 ELSE 0
      [] body = "dbl" -> n * 2
      [] body = "const" -> 200
      [] body = "one" -> 1
      [] body = "two" -> 2
      [] OTHER -> 0

\* The value a body returns, of the function's declared result type; a
\* result declared interface{} holds an int.
BodyResult(f, n) ==
    IF NumOut(f.typ) = 0 THEN NilValue
    ELSE LET resTyp == f.typ.out[1]
             r == BodyRaw(f.body, n)
         IN  IF resTyp \in Numeric THEN Val(resTyp, Wrap(r, resTyp))
             ELSE IF KindOf(resTyp) = "string" THEN Val(resTyp, RuneString(r))
             ELSE IF KindOf(resTyp) = "interface" THEN Val("int", r)
             ELSE IF KindOf(resTyp) = "slice" THEN SliceVal(resTyp, 1, <<r>>)
             ELSE Val(resTyp, r)

\* Running the body of f on the argument a it received.
CallBody(f, a) ==
    LET got == BodyArg(f, a)
    IN  IF ~got.ok THEN [fault |-> TRUE, val |-> NilValue]
        ELSE [fault |-> FALSE, val |-> BodyResult(f, got.n)]

(***************************************************************************)
(* The outcome of one invocation, and the calls it made.                   *)
(*   fault "convert" : reflect.Value.Convert panicked                      *)
(*   fault "call"    : reflect.Value.Call panicked on the argument         *)
(*   fault "resconvert" : reflect.Value.Convert panicked on the result     *)
(*   fault "body"    : the callable itself panicked                        *)
(*   fault "nilfunc" : a nil function was called                           *)
(*   fault "cast"    : the caller's type assertion on the result failed    *)
(*   fault "compare" : == panicked, "comparing uncomparable type"          *)
(*   fault "index"   : reflect.Value.Index panicked, index out of range    *)
(*   fault "error"   : panic(err), the outcome's val being err             *)
(* and the fixed message of a panic(msg) of the package.                   *)
(* A call is logged as [f, args]: the callable and what it received.       *)
(***************************************************************************)
NoOutcome == [kind |-> "none", fault |-> "", val |-> NilValue]

Raised(what) == [NoOutcome EXCEPT !.kind = "fault", !.fault = what]

Returned(val) == [NoOutcome EXCEPT !.kind = "value", !.val = val]

ReturnedNothing == [NoOutcome EXCEPT !.kind = "void"]

Ran(o, cs) == [out |-> o, calls |-> cs]

Called(f, args) == [f |-> f, args |-> args]

\* The type rule of reflect.Value.Call for one argument.
AssignableTo(val, ptype) ==
    /\ IsValid(val)
    /\ \/ val.typ.name = ptype
       \/ KindOf(ptype) = "interface" /\ Implements(val.typ.name, ptype)

\* The result of the call converted to xtyp (MapTo, SupplierOf).
ConvertResult(val, xtyp) ==
    LET resVal == Convert(val, xtyp)
    IN  IF resVal.ok THEN Returned(resVal.val) ELSE Raised("resconvert")

\* What the returned function does with the result of the call.
Finish(via, xtyp, val) ==
    CASE via = "Filter" -> Returned(Val("bool", val.v))
      [] via = "Map" -> Returned(val)
      [] via = "Supplier" -> Returned(val)
      [] via = "MapTo" -> ConvertResult(val, xtyp)
      [] via = "SupplierOf" -> ConvertResult(val, xtyp)
      [] via = "Consumer" -> ReturnedNothing

\* vfn.Call with the given arguments, then the handling of its result.
CallVfn(a, args) ==
    IF Len(args) = 1 /\ ~AssignableTo(args[1], a.f.typ.in[1])
        THEN Ran(Raised("call"), <<>>)
    ELSE LET r == CallBody(a.f, IF Len(args) = 1 THEN args[1] ELSE NilValue)
         IN  IF r.fault THEN Ran(Raised("body"), <<Called(a.f, args)>>)
             ELSE Ran(Finish(a.via, a.xtyp, r.val), <<Called(a.f, args)>>)

\* A wrapper that hands the argument to Call as it came, unconverted.
InvokeWrapperNoConvert(a, x) == CallVfn(a, <<x>>)

\* A wrapper that runs the callable on the raw argument when the
\* conversion fails, and only then lets the fault out.
InvokeWrapperCallFirst(a, x) ==
    LET argVal == Convert(x, a.argTyp)
    IN  IF ~argVal.ok THEN Ran(Raised("convert"), <<Called(a.f, <<x>>)>>)
        ELSE CallVfn(a, <<argVal.val>>)

\* A wrapper that takes an untyped nil argument for the nil pointer when
\* the parameter is a pointer.
InvokeWrapperNilForPointer(a, x) ==
    LET argVal == IF ~IsValid(x) /\ KindOf(a.argTyp) = "ptr"
                      THEN [ok |-> TRUE, val |-> NilOf(a.argTyp)]
                  ELSE Convert(x, a.argTyp)
    IN  IF ~argVal.ok THEN Ran(Raised("convert"), <<>>)
        ELSE CallVfn(a, <<argVal.val>>)

\* A wrapper that works once: it uses up, in its first invocation, what
\* the adapter captured, and fails in every later one.
InvokeWrapperOneShot(a, x) ==
    LET argVal == Convert(x, a.argTyp)
    IN  IF ninv > 0 THEN Ran(Raised("call"), <<>>)
        ELSE IF ~argVal.ok THEN Ran(Raised("convert"), <<>>)
        ELSE CallVfn(a, <<argVal.val>>)

\* The function a wrapping adapter returns, applied to x (unary adapters).
InvokeWrapper(a, x) ==
    LET argVal == Convert(x, a.argTyp)
    IN  IF ~argVal.ok THEN Ran(Raised("convert"), <<>>)
        ELSE CallVfn(a, <<argVal.val>>)

\* The function Supplier / SupplierOf build, invoked.
InvokeSupplierWrapper(a) == CallVfn(a, <<>>)

\* The original callable, returned as is, called directly with args.
InvokeSame(a, args) ==
    IF a.f.nil THEN Ran(Raised("nilfunc"), <<>>)
    ELSE LET r == CallBody(a.f, IF Len(args) = 1 THEN args[1] ELSE NilValue)
         IN  IF r.fault THEN Ran(Raised("body"), <<Called(a.f, args)>>)
             ELSE IF NumOut(a.f.typ) = 0 THEN Ran(ReturnedNothing, <<Called(a.f, args)>>)
             ELSE Ran(Returned(r.val), <<Called(a.f, args)>>)

\* Invoking what Filter, Map, MapTo (after the cast) or Consumer returned.
InvokeAdapted(a, x) ==
    IF a.kind = "same" THEN InvokeSame(a, <<x>>) ELSE InvokeWrapper(a, x)

\* Invoking what Supplier or SupplierOf (after the cast) returned.
InvokeAdaptedSupplier(a) ==
    IF a.kind = "same" THEN InvokeSame(a, <<>>) ELSE InvokeSupplierWrapper(a)

\* The caller's type assertion on what MapTo / SupplierOf returned.
CastOk(a, want) == a.typ = want

(***************************************************************************)
(* FilterAll, And, Or, Not.                                                *)
(***************************************************************************)
\* FilterAll that leaves out the predicates Filter rejects.
FilterAllLenient(fs) ==
    LET adaptedFns == [i \in 1..Len(fs) |-> Filter(fs[i])]
        isGood(a) == a.kind # "fault"
    IN  [NoAdapter EXCEPT !.kind = "list", !.list = SelectSeq(adaptedFns, isGood)]

FilterAll(fs) ==
    LET adaptedFns == [i \in 1..Len(fs) |-> Filter(fs[i])]
    IN  IF \E i \in 1..Len(fs) : adaptedFns[i].kind = "fault"
            THEN Faulted(<<filterErrorMsg>>)
        ELSE [NoAdapter EXCEPT !.kind = "list", !.list = adaptedFns]

Closure(via, l) ==
    IF l.kind = "fault" THEN l
    ELSE [l EXCEPT !.kind = "closure", !.via = via,
                   !.typ = FuncOf(<<"any">>, <<"bool">>)]

And(fs) == Closure("And", FilterAll(fs))

\* Or built as a copy of And.
OrAsAnd(fs) == Closure("And", FilterAll(fs))

Or(fs) == Closure("Or", FilterAll(fs))

Not(f) ==
    LET adaptedFn == Filter(f)
    IN  IF adaptedFn.kind = "fault" THEN adaptedFn
        ELSE [NoAdapter EXCEPT !.kind = "closure", !.via = "Not",
                               !.list = <<adaptedFn>>,
                               !.typ = FuncOf(<<"any">>, <<"bool">>)]

True == Val("bool", 1)
False == Val("bool", 0)

\* A Go bool result as a value.
Bool(b) == IF b THEN True ELSE False

\* The loop of And without the short circuit: every predicate is invoked,
\* whatever the earlier ones returned.
RECURSIVE AndEager(_, _, _, _)
AndEager(list, i, x, cs) ==
    IF i > Len(list) THEN Ran(Returned(True), cs)
    ELSE LET r == InvokeAdapted(list[i], x)
             rest == AndEager(list, i + 1, x, cs \o r.calls)
         IN  IF r.out.kind = "fault" THEN Ran(r.out, cs \o r.calls)
             ELSE IF rest.out.kind = "fault" THEN rest
             ELSE IF r.out.val.v = 0 THEN Ran(Returned(False), rest.calls)
             ELSE rest

\* The loop of the closure And returns, from its i-th predicate on.
RECURSIVE AndFrom(_, _, _, _)
AndFrom(list, i, x, cs) ==
    IF i > Len(list) THEN Ran(Returned(True), cs)
    ELSE LET r == InvokeAdapted(list[i], x)
         IN  IF r.out.kind = "fault" THEN Ran(r.out, cs \o r.calls)
             ELSE IF r.out.val.v = 0 THEN Ran(Returned(False), cs \o r.calls)
             ELSE AndFrom(list, i + 1, x, cs \o r.calls)

\* The loop of the closure Or returns, from its i-th predicate on.
RECURSIVE OrFrom(_, _, _, _)
OrFrom(list, i, x, cs) ==
    IF i > Len(list) THEN Ran(Returned(False), cs)
    ELSE LET r == InvokeAdapted(list[i], x)
         IN  IF r.out.kind = "fault" THEN Ran(r.out, cs \o r.calls)
             ELSE IF r.out.val.v # 0 THEN Ran(Returned(True), cs \o r.calls)
             ELSE OrFrom(list, i + 1, x, cs \o r.calls)

\* The closure Not returns.
NotOf(list, x) ==
    LET r == InvokeAdapted(list[1], x)
    IN  IF r.out.kind = "fault" THEN r
        ELSE Ran(Returned(IF r.out.val.v = 0 THEN True ELSE False), r.calls)

InvokeClosure(a, x) ==
    CASE a.via = "And" -> AndFrom(a.list, 1, x, <<>>)
      [] a.via = "Or" -> OrFrom(a.list, 1, x, <<>>)
      [] a.via = "Not" -> NotOf(a.list, x)

(***************************************************************************)
(* EqualTo and DeepEqualTo.                                                *)
(***************************************************************************)
\* reflect.Type.ConvertibleTo, on types.  A function type has no name: it
\* converts to the identical function type and to interface{}.
TypeConvertibleTo(src, dst) ==
    IF src.kind = "func" \/ dst.kind = "func"
        THEN (src = dst) \/ (dst.name = "any")
    ELSE ConvertibleTo(src.name, dst.name)

\* reflect.Value.Convert to a type.
ConvertTyped(val, dst) ==
    IF ~IsValid(val) \/ ~TypeConvertibleTo(val.typ, dst)
        THEN [ok |-> FALSE, val |-> NilValue]
    ELSE IF val.typ.kind = "func" THEN [ok |-> TRUE, val |-> val]
    ELSE Convert(val, dst.name)

\* fmt.Sprintf("%p", val).  For a chan, func, map, pointer or slice it is
\* the address in hexadecimal (0x0 for nil; for a slice the address of its
\* element 0; for a function its code, told by type and body).  For any
\* other kind it is the bad-verb text %!p(T=contents), which holds the
\* type and the printed contents and no address.
PtrString(val) ==
    IF val.typ.kind \in {"chan", "func", "map", "ptr", "slice"}
        THEN IF val.nil
                 THEN [ptr |-> TRUE, addr |-> 0, ty |-> NoType, body |-> "",
                       elems |-> <<>>]
             ELSE IF val.typ.kind = "func"
                 THEN [ptr |-> TRUE, addr |-> 0, ty |-> val.typ, body |-> val.body,
                       elems |-> <<>>]
             ELSE [ptr |-> TRUE, addr |-> val.v, ty |-> NoType, body |-> "",
                   elems |-> <<>>]
    ELSE [ptr |-> FALSE,
          addr |-> IF val.elems = <<>> THEN val.v ELSE 0,
          ty |-> val.typ, body |-> "", elems |-> val.elems]

\* The operands of == hold a slice behind an interface field: the runtime
\* panics with "comparing uncomparable type".
Uncomparable(val) == val.typ.name = "Box"

\* a == b for two values of one comparable type.
EqualValues(a, b) ==
    CASE a.typ.kind \in {"ptr", "chan"} -> (a.nil = b.nil) /\ (a.nil \/ a.v = b.v)
      [] a.typ.kind = "array" -> a.elems = b.elems
      [] OTHER -> a.v = b.v

\* The entries of a map, whatever their order.
Entries(val) == {val.elems[i] : i \in 1..Len(val.elems)}

\* reflect.DeepEqual(a, b) for two values of one type.
DeepEqual(a, b) ==
    CASE a.typ.kind = "func" -> a.nil /\ b.nil
      [] a.typ.kind = "slice" -> (a.nil = b.nil) /\ (a.nil \/ a.elems = b.elems)
      [] a.typ.kind = "map" -> (a.nil = b.nil) /\ (a.nil \/ Entries(a) = Entries(b))
      [] a.typ.kind = "ptr" ->
            (a.nil = b.nil) /\ (a.nil \/ a.v = b.v \/ a.elems = b.elems)
      [] a.typ.kind = "chan" -> (a.nil = b.nil) /\ (a.nil \/ a.v = b.v)
      [] a.typ.kind = "array" -> a.elems = b.elems
      [] a.typ.name = "Box" -> a.elems = b.elems
      [] OTHER -> a.v = b.v

\* What EqualTo / DeepEqualTo return: a closure over val, its type and
\* whether it is nil (both are functions of val, kept with it in f).
Predicate(via, val) ==
    [NoAdapter EXCEPT !.kind = "predicate", !.via = via, !.f = val,
                      !.typ = FuncOf(<<"any">>, <<"bool">>)]

EqualTo(val) == Predicate("EqualTo", val)

DeepEqualTo(val) == Predicate("DeepEqualTo", val)

\* The closure of EqualTo that compares in the type of the argument: it
\* converts val to the type of arg where both are integers.
EqualToInArgType(a, arg) ==
    LET val == a.f
    IN  IF val.typ = NoType THEN Returned(Bool(arg.typ = NoType))
        ELSE IF (arg.typ = NoType) \/ ~TypeConvertibleTo(arg.typ, val.typ)
            THEN Returned(False)
        ELSE IF IsNil(val) THEN Returned(Bool(IsNil(arg)))
        ELSE IF ~Comparable(val.typ)
            THEN Returned(Bool(PtrString(val) = PtrString(arg)))
        ELSE IF IsNil(arg) THEN Returned(False)
        ELSE IF val.typ.name \in Numeric /\ arg.typ.name \in Numeric
            THEN Returned(Bool(EqualValues(Convert(val, arg.typ.name).val, arg)))
        ELSE LET conv == ConvertTyped(arg, val.typ)
             IN  IF ~conv.ok THEN Raised("convert")
                 ELSE IF Uncomparable(val) THEN Raised("compare")
                 ELSE Returned(Bool(EqualValues(val, conv.val)))

\* The closure EqualTo returns, applied to arg.
EqualToOf(a, arg) ==
    LET val == a.f
        valIsNil == IsNil(val)
        valTyp == val.typ
        argTyp == arg.typ
    IN  IF valTyp = NoType THEN Returned(Bool(argTyp = NoType))
        ELSE IF (argTyp = NoType) \/ ~TypeConvertibleTo(argTyp, valTyp)
            THEN Returned(False)
        ELSE IF valIsNil THEN Returned(Bool(IsNil(arg)))
        ELSE IF ~Comparable(valTyp)
            THEN Returned(Bool(PtrString(val) = PtrString(arg)))
        ELSE IF IsNil(arg) THEN Returned(False)
        ELSE LET conv == ConvertTyped(arg, valTyp)
             IN  IF ~conv.ok THEN Raised("convert")
                 ELSE IF Uncomparable(val) THEN Raised("compare")
                 ELSE Returned(Bool(EqualValues(val, conv.val)))

\* The closure of DeepEqualTo that takes any nil argument for a typed nil
\* val, whatever its type.
DeepEqualToAnyNil(a, arg) ==
    LET val == a.f
    IN  IF val.typ = NoType THEN Returned(Bool(arg.typ = NoType))
        ELSE IF IsNil(val) THEN Returned(Bool(IsNil(arg)))
        ELSE IF (arg.typ = NoType) \/ ~TypeConvertibleTo(arg.typ, val.typ)
            THEN Returned(False)
        ELSE IF IsNil(arg) THEN Returned(False)
        ELSE Returned(Bool(DeepEqual(val, ConvertTyped(arg, val.typ).val)))

\* The closure DeepEqualTo returns, applied to arg.
DeepEqualToOf(a, arg) ==
    LET val == a.f
        valIsNil == IsNil(val)
        valTyp == val.typ
        argTyp == arg.typ
    IN  IF valTyp = NoType THEN Returned(Bool(argTyp = NoType))
        ELSE IF (argTyp = NoType) \/ ~TypeConvertibleTo(argTyp, valTyp)
            THEN Returned(False)
        ELSE IF valIsNil THEN Returned(Bool(IsNil(arg)))
        ELSE IF IsNil(arg) THEN Returned(False)
        ELSE LET conv == ConvertTyped(arg, valTyp)
             IN  IF ~conv.ok THEN Raised("convert")
                 ELSE Returned(Bool(DeepEqual(val, conv.val)))

\* Invoking what EqualTo or DeepEqualTo returned.
InvokePredicate(a, arg) ==
    IF a.via = "EqualTo" THEN Ran(EqualToOf(a, arg), <<>>)
    ELSE Ran(DeepEqualToOf(a, arg), <<>>)

(***************************************************************************)
(* IndexOf and ValueOfKey.                                                 *)
(***************************************************************************)
\* reflect.Zero(typ).Interface(), on type names.
Zero(name) ==
    CASE name \in Numeric -> Val(name, 0)
      [] KindOf(name) = "string" -> Val(name, -1)
      [] KindOf(name) = "bool" -> Val(name, 0)
      [] KindOf(name) = "interface" -> NilValue
      [] OTHER -> NilOf(name)

\* reflect.Value.Len of an array or slice.
SeqLen(rv) == IF rv.typ.name = "[1][]int" THEN 1 ELSE Len(rv.elems)

\* rv.Index(i).Interface() for 0 <= i < SeqLen(rv).
ElemAt(rv, i) ==
    IF rv.typ.name = "[1][]int"
        THEN [Val("[]int", rv.v) EXCEPT !.elems = rv.elems]
    ELSE Val(Elem(rv.typ.name), rv.elems[i + 1].e)

\* int(index) < 0: the conversion of a uint with its top bit set.
Negative(index) == index.top

\* rv.Len() > int(index).
LenAbove(rv, index) == Negative(index) \/ (SeqLen(rv) > index.low)

\* The default, when one is given, converted to the element type.
ConvertDefalt(defalt, elementTyp) ==
    IF Len(defalt) > 0 THEN Convert(defalt[1], elementTyp)
    ELSE [ok |-> TRUE, val |-> NilValue]

\* IndexOf that converts the default only when it is about to return it.
IndexOfLazyDefault(arrslc, index, defalt) ==
    IF arrslc.typ.kind \notin {"array", "slice"} THEN Raised(indexOfErrorMsg)
    ELSE LET elementTyp == Elem(arrslc.typ.name)
         IN  IF LenAbove(arrslc, index)
                 THEN IF Negative(index) THEN Raised("index")
                      ELSE Returned(ElemAt(arrslc, index.low))
             ELSE IF Len(defalt) > 0
                 THEN LET rdf == Convert(defalt[1], elementTyp)
                      IN  IF rdf.ok THEN Returned(rdf.val) ELSE Raised("convert")
             ELSE Returned(Zero(elementTyp))

IndexOf(arrslc, index, defalt) ==
    IF arrslc.typ.kind \notin {"array", "slice"} THEN Raised(indexOfErrorMsg)
    ELSE LET elementTyp == Elem(arrslc.typ.name)
             rdf == ConvertDefalt(defalt, elementTyp)
         IN  IF ~rdf.ok THEN Raised("convert")
             ELSE IF LenAbove(arrslc, index)
                 THEN IF Negative(index) THEN Raised("index")
                      ELSE Returned(ElemAt(arrslc, index.low))
             ELSE IF Len(defalt) > 0 THEN Returned(rdf.val)
             ELSE Returned(Zero(elementTyp))

\* The key type of a map type, on type names.
KeyOf(name) == IF name = "map[string]int" THEN "string" ELSE ""

\* mr.Key().Interface() == key: the same dynamic type and equal values.
KeyEquals(mapKey, key) == (mapKey.typ = key.typ) /\ EqualValues(mapKey, key)

\* The loop over rv.MapRange(), which yields the entries in the given
\* order, from its i-th step on: found is whether a key matched.
RECURSIVE MapLookup(_, _, _, _)
MapLookup(rv, order, i, key) ==
    IF i > Len(order) THEN [found |-> FALSE, val |-> NilValue]
    ELSE LET entry == rv.elems[order[i]]
         IN  IF KeyEquals(Val(KeyOf(rv.typ.name), entry.k), key)
                 THEN [found |-> TRUE, val |-> Val(Elem(rv.typ.name), entry.e)]
             ELSE MapLookup(rv, order, i + 1, key)

\* ValueOfKey that returns a given default without looking the key up.
ValueOfKeyDefaultFirst(mp, key, defalt, order) ==
    IF mp.typ.kind # "map" THEN Raised(valueOfKeyErrorMsg)
    ELSE LET elementTyp == Elem(mp.typ.name)
             rdf == ConvertDefalt(defalt, elementTyp)
             hit == MapLookup(mp, order, 1, key)
         IN  IF ~rdf.ok THEN Raised("convert")
             ELSE IF Len(defalt) > 0 THEN Returned(rdf.val)
             ELSE IF hit.found THEN Returned(hit.val)
             ELSE Returned(Zero(elementTyp))

\* order is the order in which MapRange yields the entries of mp.
ValueOfKey(mp, key, defalt, order) ==
    IF mp.typ.kind # "map" THEN Raised(valueOfKeyErrorMsg)
    ELSE LET elementTyp == Elem(mp.typ.name)
             rdf == ConvertDefalt(defalt, elementTyp)
             hit == MapLookup(mp, order, 1, key)
         IN  IF ~rdf.ok THEN Raised("convert")
             ELSE IF hit.found THEN Returned(hit.val)
             ELSE IF Len(defalt) > 0 THEN Returned(rdf.val)
             ELSE Returned(Zero(elementTyp))

(***************************************************************************)
(* Ternary and TernaryOf.  TernaryOf is not part of the source at hand     *)
(* (only its test is): it adapts both suppliers with Supplier and invokes  *)
(* the selected one.                                                       *)
(***************************************************************************)
\* Ternary that returns its first value whatever expr is.
TernaryFirst(expr, trueVal, falseVal) == trueVal

Ternary(expr, trueVal, falseVal) == IF expr THEN trueVal ELSE falseVal

TernaryOf(expr, trueVal, falseVal) ==
    LET trueFn == Supplier(trueVal)
        falseFn == Supplier(falseVal)
    IN  IF trueFn.kind = "fault" THEN Ran(Raised(trueFn.msg[1]), <<>>)
        ELSE IF falseFn.kind = "fault" THEN Ran(Raised(falseFn.msg[1]), <<>>)
        ELSE InvokeAdaptedSupplier(Ternary(expr, trueFn, falseFn))

(***************************************************************************)
(* PanicOnError and PanicOnError2.  An error is a value of a type that     *)
(* implements error; the nil error is the untyped nil.                     *)
(***************************************************************************)
\* panic(err): the fault carries err itself.
Panicked(err) == [NoOutcome EXCEPT !.kind = "fault", !.fault = "error", !.val = err]

\* PanicOnError that panics with something made from err, not err.
PanicOnErrorCopy(err) ==
    IF IsValid(err) THEN Panicked(Val(err.typ.name, 0)) ELSE ReturnedNothing

PanicOnError(err) ==
    IF IsValid(err) THEN Panicked(err) ELSE ReturnedNothing

PanicOnError2(val, err) ==
    IF IsValid(err) THEN Panicked(err) ELSE Returned(val)

(***************************************************************************)
(* The inputs the model draws from.                                        *)
(***************************************************************************)
ParamTypes == {"int", "int8", "string", "any", "Stringer", "[2]int", "*int"}
ResultTypes == {"bool", "MyBool", "int", "int8", "string", "*int", "any", "[]int"}

InShapes == {<<>>, <<"int", "int">>} \cup {<<p>> : p \in ParamTypes}
OutShapes == {<<>>, <<"int", "int">>} \cup {<<r>> : r \in ResultTypes}

DefaultBody(in, result) ==
    IF result = <<>> THEN "store"
    ELSE IF KindOf(result[1]) = "bool" THEN "lt3"
    ELSE IF in = <<>> THEN "const"
    ELSE "dbl"

Functions ==
    {FnVal(i, o, isNil, DefaultBody(i, o)) :
        i \in InShapes, o \in OutShapes, isNil \in BOOLEAN}

NonFunctions ==
    {NilValue, Val("int", 0), Val("string", 50), NilPtr, Val("*int", 1), Val("S", 1)}

FnInputs == Functions \cup NonFunctions

Probes ==
    {NilValue, NilPtr, Val("*int", 1), Val("int", 0), Val("int8", 0),
     Val("string", 50), Val("bool", 1), Val("MyBool", 1), Val("S", 1),
     ArrayVal("[2]int", <<0, 0>>)}

Args ==
    {NilValue, NilPtr, Val("int", -1), Val("int", 1), Val("int", 5),
     Val("int", 300), Val("int8", -1), Val("uint8", 1), Val("uint8", 200),
     Val("string", 50), Val("S", 1), Val("bool", 1),
     SliceVal("[]int", 1, <<1, 2>>), SliceVal("[]int", 3, <<1>>)}

PredPool ==
    {FnVal(<<"any">>, <<"bool">>, FALSE, "lt3"),
     FnVal(<<"int">>, <<"bool">>, FALSE, "ge0"),
     FnVal(<<"int">>, <<"bool">>, FALSE, "even"),
     FnVal(<<"int8">>, <<"MyBool">>, FALSE, "lt3"),
     FnVal(<<"int">>, <<"int">>, FALSE, "dbl"),
     FnVal(<<"any">>, <<"bool">>, TRUE, "lt3")}

\* The values IsNil and IsNilable are applied to: of every kind, nil and not.
NilArgs ==
    {NilValue, NilPtr, Val("*int", 1), NilOf("[]int"), SliceVal("[]int", 1, <<1, 2>>),
     NilOf("map[string]int"), MapVal("map[string]int", 1, <<[k |-> 49, e |-> 1]>>),
     NilOf("chan int"), Val("chan int", 1),
     FnVal(<<>>, <<>>, TRUE, "store"), FnVal(<<"int">>, <<"bool">>, FALSE, "lt3"),
     ArrayVal("[2]int", <<1, 2>>), Holding("[1][]int", 1, <<1, 2>>),
     Val("string", -1), Val("string", 50), Val("S", 1), Holding("Box", 1, <<1>>),
     Val("int", 0), Val("int8", -1), Val("uint8", 200), Val("bool", 0)}

\* The values EqualTo and DeepEqualTo are built from and applied to.
\*   slices: theVal at address 1; a second instance with the same contents;
\*   a shorter one; theVal[:1]; theVal converted to IntSlice
EqValues ==
    {NilValue, NilPtr, NilOf("[]int"), NilOf("[]string"), NilOf("IntSlice"),
     SliceVal("[]int", 1, <<1, 2>>), SliceVal("[]int", 2, <<1, 2>>),
     SliceVal("[]int", 3, <<1>>), SliceVal("[]int", 1, <<1>>),
     SliceVal("IntSlice", 1, <<1, 2>>),
     Holding("[1][]int", 1, <<1, 2>>), Holding("[1][]int", 2, <<1, 2>>),
     Holding("Box", 1, <<1>>),
     MapVal("map[string]int", 1, <<[k |-> 49, e |-> 1]>>),
     MapVal("map[string]int", 2, <<[k |-> 49, e |-> 1]>>),
     FnVal(<<"int">>, <<"bool">>, FALSE, "lt3"), Val("chan int", 1),
     ArrayVal("[2]int", <<1, 2>>), Val("S", 1), Val("bool", 1),
     Val("int", 1), Val("int", 5), Val("int8", 1), Val("string", 50),
     Val("int", 257), Val("int", -255), Val("int8", -1), Val("uint8", 255)}

\* What IndexOf is given as arrslc: slices, arrays and other things.
Seqs ==
    {SliceVal("[]int", 1, <<1>>), SliceVal("[]int", 1, <<1, 2>>), NilOf("[]int"),
     SliceVal("[]string", 1, <<50>>), ArrayVal("[2]int", <<1, 2>>),
     Holding("[1][]int", 1, <<1, 2>>),
     NilValue, Val("int", 5), Val("string", 50), NilPtr,
     MapVal("map[string]int", 1, <<[k |-> 49, e |-> 1]>>)}

\* The indexes: the small ones, and those above the greatest int.
Indexes == {Uint(top, low) : top \in BOOLEAN, low \in 0..MaxIndex}

\* The variadic defalt: none, one, or two of which the first counts.
Defalts ==
    {<<>>, <<Val("int", 2)>>, <<Val("int8", -1)>>, <<Val("string", 50)>>,
     <<NilValue>>, <<NilOf("IntSlice")>>, <<Val("int", 2), Val("string", 50)>>}

\* What ValueOfKey is given as mp: maps and other things.
Maps ==
    {MapVal("map[string]int", 1, <<[k |-> 49, e |-> 1]>>),
     MapVal("map[string]int", 1, <<[k |-> 49, e |-> 1], [k |-> 50, e |-> 2]>>),
     NilOf("map[string]int"),
     NilValue, Val("int", 5), SliceVal("[]int", 1, <<1>>)}

Keys ==
    {Val("string", 49), Val("string", 50), Val("string", -1), Val("int", 49),
     NilValue}

\* The errors PanicOnError is given: none, the error of json.Unmarshal on
\* "{", the error of strconv.Atoi("a"), and a nil pointer held as an error.
Errs ==
    {NilValue, Val("*SyntaxError", 1), Val("*NumError", 2), NilOf("*NumError")}

\* The values PanicOnError2 is given with them.
Vals == {NilValue, Val("int", 1), Val("string", 50), NilPtr}

\* The suppliers TernaryOf is given: those of its test, a nil one, and
\* things Supplier rejects.
Suppliers ==
    {FnVal(<<>>, <<"any">>, FALSE, "one"), FnVal(<<>>, <<"any">>, FALSE, "two"),
     FnVal(<<>>, <<"int">>, FALSE, "one"), FnVal(<<>>, <<"int">>, FALSE, "two"),
     FnVal(<<>>, <<"any">>, TRUE, "one"), FnVal(<<"int">>, <<"int">>, FALSE, "dbl"),
     Val("int", 1), NilValue}

\* The orders in which a map of n entries can be iterated.
Orders(n) ==
    {p \in [1..n -> 1..n] : \A i, j \in 1..n : p[i] = p[j] => i = j}

RECURSIVE SeqsUpTo(_, _)
SeqsUpTo(S, n) ==
    IF n = 0 THEN {<<>>}
    ELSE LET shorter == SeqsUpTo(S, n - 1)
         IN  shorter \cup {Append(q, e) : q \in shorter, e \in S}

PredLists == SeqsUpTo(PredPool, MaxPreds)

(***************************************************************************)
(* The state machine.                                                      *)
(***************************************************************************)
Init ==
    /\ adapter = "none"
    /\ curFn = NilValue
    /\ curFns = <<>>
    /\ curProbe = NilValue
    /\ adapted = NoAdapter
    /\ ninv = 0
    /\ lastArg = NilValue
    /\ outcome = NoOutcome
    /\ calls = <<>>
    /\ lastElem = 0
    /\ curColl = NilValue
    /\ curIndex = NoIndex
    /\ curKey = NilValue
    /\ curDefalt = <<>>

Construct(name, f, fs, val, a) ==
    /\ adapter = "none"
    /\ adapter' = name
    /\ curFn' = f
    /\ curFns' = fs
    /\ curProbe' = val
    /\ adapted' = a
    /\ UNCHANGED <<ninv, lastArg, outcome, calls>>
    /\ UNCHANGED <<lastElem, curColl, curIndex, curKey, curDefalt>>

CallFilter == \E f \in FnInputs : Construct("Filter", f, <<>>, NilValue, Filter(f))

CallMap == \E f \in FnInputs : Construct("Map", f, <<>>, NilValue, Map(f))

CallMapTo ==
    \E f \in FnInputs, val \in Probes : Construct("MapTo", f, <<>>, val, MapTo(f, val))

CallSupplier == \E f \in FnInputs : Construct("Supplier", f, <<>>, NilValue, Supplier(f))

CallSupplierOf ==
    \E f \in FnInputs, val \in Probes :
        Construct("SupplierOf", f, <<>>, val, SupplierOf(f, val))

CallConsumer == \E f \in FnInputs : Construct("Consumer", f, <<>>, NilValue, Consumer(f))

CallFilterAll ==
    \E fs \in PredLists : Construct("FilterAll", NilValue, fs, NilValue, FilterAll(fs))

CallEqualTo ==
    \E val \in EqValues : Construct("EqualTo", NilValue, <<>>, val, EqualTo(val))

CallDeepEqualTo ==
    \E val \in EqValues :
        Construct("DeepEqualTo", NilValue, <<>>, val, DeepEqualTo(val))

CallAnd == \E fs \in PredLists : Construct("And", NilValue, fs, NilValue, And(fs))

CallOr == \E fs \in PredLists : Construct("Or", NilValue, fs, NilValue, Or(fs))

CallNot == \E f \in PredPool : Construct("Not", f, <<>>, NilValue, Not(f))

Invoked(x, r) ==
    /\ ninv < MaxInvocations
    /\ ninv' = ninv + 1
    /\ lastArg' = x
    /\ outcome' = r.out
    /\ calls' = r.calls
    /\ UNCHANGED <<adapter, curFn, curFns, curProbe, adapted>>
    /\ UNCHANGED <<lastElem, curColl, curIndex, curKey, curDefalt>>

\* The caller invokes what Filter, Map or Consumer returned.
Invoke ==
    /\ adapter \in {"Filter", "Map", "Consumer"}
    /\ adapted.kind \in {"same", "wrapper"}
    /\ \E x \in Args : Invoked(x, InvokeAdapted(adapted, x))

\* The caller type-asserts what MapTo returned to func(interface{}) X and
\* invokes it.
InvokeMapTo ==
    /\ adapter = "MapTo"
    /\ adapted.kind \in {"same", "wrapper"}
    /\ \E x \in Args :
        Invoked(x, IF CastOk(adapted, FuncOf(<<"any">>, <<curProbe.typ.name>>))
                       THEN InvokeAdapted(adapted, x)
                       ELSE Ran(Raised("cast"), <<>>))

\* The caller invokes what Supplier returned.
InvokeSupplier ==
    /\ adapter = "Supplier"
    /\ adapted.kind \in {"same", "wrapper"}
    /\ Invoked(NilValue, InvokeAdaptedSupplier(adapted))

\* The caller type-asserts what SupplierOf returned to func() X and invokes
\* it.
InvokeSupplierOf ==
    /\ adapter = "SupplierOf"
    /\ adapted.kind \in {"same", "wrapper"}
    /\ Invoked(NilValue, IF CastOk(adapted, FuncOf(<<>>, <<curProbe.typ.name>>))
                             THEN InvokeAdaptedSupplier(adapted)
                             ELSE Ran(Raised("cast"), <<>>))

\* The caller invokes the closure And, Or or Not returned.
InvokeCombinator ==
    /\ adapted.kind = "closure"
    /\ \E x \in Args : Invoked(x, InvokeClosure(adapted, x))

\* The caller invokes the predicate EqualTo or DeepEqualTo returned.
InvokeEqual ==
    /\ adapted.kind = "predicate"
    /\ \E x \in EqValues : Invoked(x, InvokePredicate(adapted, x))

\* One call of a plain function of the package on x, with the outcome o.
Applied(name, x, o) ==
    /\ adapter = "none"
    /\ adapter' = name
    /\ lastArg' = x
    /\ outcome' = o
    /\ UNCHANGED <<curFn, curFns, curProbe, adapted, ninv, calls>>
    /\ UNCHANGED <<lastElem, curColl, curIndex, curKey, curDefalt>>

CallIsNil == \E x \in NilArgs : Applied("IsNil", x, Returned(Bool(IsNil(x))))

CallIsNilable ==
    \E x \in NilArgs : Applied("IsNilable", x, Returned(Bool(IsNilable(x))))

\* One call of IndexOf or ValueOfKey, with the outcome o.
Looked(name, coll, index, key, defalt, o) ==
    /\ adapter = "none"
    /\ adapter' = name
    /\ curColl' = coll
    /\ curIndex' = index
    /\ curKey' = key
    /\ curDefalt' = defalt
    /\ outcome' = o
    /\ UNCHANGED <<curFn, curFns, curProbe, adapted, ninv, lastArg, calls, lastElem>>

CallIndexOf ==
    \E arrslc \in Seqs, index \in Indexes, defalt \in Defalts :
        Looked("IndexOf", arrslc, index, NilValue, defalt,
               IndexOf(arrslc, index, defalt))

CallValueOfKey ==
    \E mp \in Maps, key \in Keys, defalt \in Defalts :
        \E order \in Orders(Len(mp.elems)) :
            Looked("ValueOfKey", mp, NoIndex, key, defalt,
                   ValueOfKey(mp, key, defalt, order))

\* One call of PanicOnError (val is absent) or PanicOnError2.
Guarded(name, val, err, o) ==
    /\ adapter = "none"
    /\ adapter' = name
    /\ curProbe' = val
    /\ lastArg' = err
    /\ outcome' = o
    /\ UNCHANGED <<curFn, curFns, adapted, ninv, calls>>
    /\ UNCHANGED <<lastElem, curColl, curIndex, curKey, curDefalt>>

CallPanicOnError ==
    \E err \in Errs : Guarded("PanicOnError", NilValue, err, PanicOnError(err))

CallPanicOnError2 ==
    \E val \in Vals, err \in Errs :
        Guarded("PanicOnError2", val, err, PanicOnError2(val, err))

\* One call of Ternary or TernaryOf on expr and the pair given.
Chosen(name, expr, pair, r) ==
    /\ adapter = "none"
    /\ adapter' = name
    /\ lastArg' = Bool(expr)
    /\ curFns' = pair
    /\ outcome' = r.out
    /\ calls' = r.calls
    /\ UNCHANGED <<curFn, curProbe, adapted, ninv>>
    /\ UNCHANGED <<lastElem, curColl, curIndex, curKey, curDefalt>>

CallTernary ==
    \E expr \in BOOLEAN, trueVal \in Vals, falseVal \in Vals :
        Chosen("Ternary", expr, <<trueVal, falseVal>>,
               Ran(Returned(Ternary(expr, trueVal, falseVal)), <<>>))

CallTernaryOf ==
    \E expr \in BOOLEAN, trueVal \in Suppliers, falseVal \in Suppliers :
        Chosen("TernaryOf", expr, <<trueVal, falseVal>>,
               TernaryOf(expr, trueVal, falseVal))

\* The caller invokes one element of the slice FilterAll returned.
InvokeElement ==
    /\ adapted.kind = "list"
    /\ ninv < MaxInvocations
    /\ \E i \in 1..Len(adapted.list), x \in Args :
        LET r == InvokeAdapted(adapted.list[i], x)
        IN  /\ ninv' = ninv + 1
            /\ lastElem' = i
            /\ lastArg' = x
            /\ outcome' = r.out
            /\ calls' = r.calls
    /\ UNCHANGED <<adapter, curFn, curFns, curProbe, adapted>>
    /\ UNCHANGED <<curColl, curIndex, curKey, curDefalt>>

Next ==
    \/ CallFilter
    \/ CallMap
    \/ CallMapTo
    \/ CallSupplier
    \/ CallSupplierOf
    \/ CallConsumer
    \/ CallFilterAll
    \/ CallAnd
    \/ CallOr
    \/ CallNot
    \/ Invoke
    \/ InvokeMapTo
    \/ InvokeSupplier
    \/ InvokeSupplierOf
    \/ InvokeElement
    \/ InvokeCombinator
    \/ CallEqualTo
    \/ CallDeepEqualTo
    \/ InvokeEqual
    \/ CallIsNil
    \/ CallIsNilable
    \/ CallIndexOf
    \/ CallValueOfKey
    \/ CallPanicOnError
    \/ CallPanicOnError2
    \/ CallTernary
    \/ CallTernaryOf

Spec == Init /\ [][Next]_vars

(***************************************************************************)
(* Vocabulary of the properties.                                           *)
(***************************************************************************)
Adapters == {"Filter", "Map", "MapTo", "Supplier", "SupplierOf", "Consumer"}
Unary == {"Filter", "Map", "MapTo", "Consumer"}
WithProbe == {"MapTo", "SupplierOf"}

\* The exact signature an adapter adapts to.
TargetSig(name, val) ==
    CASE name = "Filter" -> FuncOf(<<"any">>, <<"bool">>)
      [] name = "Map" -> FuncOf(<<"any">>, <<"any">>)
      [] name = "MapTo" -> FuncOf(<<"any">>, <<val.typ.name>>)
      [] name = "Supplier" -> FuncOf(<<>>, <<"any">>)
      [] name = "SupplierOf" -> FuncOf(<<>>, <<val.typ.name>>)
      [] name = "Consumer" -> FuncOf(<<"any">>, <<>>)

\* The fixed fault of an adapter about its fn.
ErrorMsgOf(name, val) ==
    CASE name = "Filter" -> <<filterErrorMsg>>
      [] name = "Map" -> <<mapErrorMsg>>
      [] name = "MapTo" -> <<mapToErrorMsg, val.typ.name>>
      [] name = "Supplier" -> <<supplierErrorMsg>>
      [] name = "SupplierOf" -> <<supplierOfErrorMsg, val.typ.name>>
      [] name = "Consumer" -> <<consumerErrorMsg>>

WantIn(name) == IF name \in {"Supplier", "SupplierOf"} THEN 0 ELSE 1
WantOut(name) == IF name = "Consumer" THEN 0 ELSE 1

IsFuncTyped(f) == f.typ.kind = "func"
NilProbe(val) == (~IsValid(val)) \/ val.nil
Accepted == adapted.kind \in {"same", "wrapper"}

\* The arguments the caller gave in the latest invocation.
GivenArgs == IF adapter \in {"Supplier", "SupplierOf"} THEN <<>> ELSE <<lastArg>>

\* x has a runtime type that converts to the type named p.
ArgConvertible(x, p) == IsValid(x) /\ ConvertibleTo(x.typ.name, p)

\* x is a slice with fewer elements than the array type named p has.
TooShort(x, p) ==
    /\ IsValid(x)
    /\ KindOf(x.typ.name) = "slice" /\ KindOf(p) = "array"
    /\ Len(x.elems) < ArrayLen(p)

(***************************************************************************)
(* C1. Identity fast path: an adapter given a non-nil function whose type  *)
(* is exactly its target signature (for MapTo / SupplierOf, with a probe   *)
(* of type X) returns that very function, and invoking the result hands    *)
(* the caller's argument to it as it is, with no conversion.               *)
(***************************************************************************)
ExactTarget ==
    /\ adapter \in Adapters
    /\ IsFuncTyped(curFn) /\ ~curFn.nil
    /\ curFn.typ = TargetSig(adapter, curProbe)

ReturnedAsIs ==
    /\ adapted.kind = "same"
    /\ adapted.f = curFn
    /\ adapted.typ = curFn.typ
    /\ ninv > 0 =>
         /\ outcome.fault \notin {"convert", "call", "resconvert", "cast", "nilfunc"}
         /\ calls = <<Called(curFn, GivenArgs)>>

\* The claim as stated: for every probe of type X.
C1_FastPathAnyProbe == ExactTarget => ReturnedAsIs

\* C1 as amended: for MapTo / SupplierOf, with a non-nil probe of type X.
C1_IdentityFastPath ==
    ( ExactTarget /\ (adapter \in WithProbe => ~NilProbe(curProbe)) )
    => ReturnedAsIs

C1_Witness ==
    /\ adapter = "MapTo"
    /\ curProbe = Val("int", 0)
    /\ curFn = FnVal(<<"any">>, <<"int">>, FALSE, "dbl")
    /\ adapted.kind = "same"
    /\ ninv > 0
    /\ lastArg = Val("int", 1)
    /\ outcome = Returned(Val("int", 2))

(***************************************************************************)
(* C2. Filter, Map, Supplier and Consumer fault, with their own fixed      *)
(* message, exactly on the inputs that are not a function, are untyped     *)
(* nil, have the wrong parameter count, the wrong result count or (Filter) *)
(* a result whose kind is not bool; every other input is accepted.         *)
(***************************************************************************)
Malformed(name, f) ==
    \/ ~IsFuncTyped(f)
    \/ NumIn(f.typ) # WantIn(name)
    \/ NumOut(f.typ) # WantOut(name)
    \/ name = "Filter" /\ KindOf(f.typ.out[1]) # "bool"

\* The claim as stated.
C2_ShapeFaultsOnly ==
    adapter \in {"Filter", "Map", "Supplier", "Consumer"} =>
        /\ (adapted.kind = "fault") <=> Malformed(adapter, curFn)
        /\ adapted.kind = "fault" => adapted.msg = ErrorMsgOf(adapter, curProbe)
        /\ adapted.kind # "fault" => Accepted

\* C2 as amended: a nil function reference whose type is not exactly the
\* target signature faults with the fixed message too.
C2_ShapeOrNilFaults ==
    adapter \in {"Filter", "Map", "Supplier", "Consumer"} =>
        /\ (adapted.kind = "fault") <=>
                \/ Malformed(adapter, curFn)
                \/ curFn.nil /\ curFn.typ # TargetSig(adapter, curProbe)
        /\ adapted.kind = "fault" => adapted.msg = ErrorMsgOf(adapter, curProbe)
        /\ adapted.kind # "fault" => Accepted

C2_Witness ==
    /\ adapter = "Filter"
    /\ curFn = FnVal(<<"int">>, <<"int">>, FALSE, "dbl")
    /\ adapted = Faulted(<<filterErrorMsg>>)

(***************************************************************************)
(* C3. Every adapter rejects a nil function reference of any function      *)
(* type, also one of exactly its target signature, with its fixed fault    *)
(* (the nil-probe fault of MapTo / SupplierOf comes first), and no adapter *)
(* returns a nil callable.                                                 *)
(***************************************************************************)
C3_NilFunctionRejected ==
    /\ ( adapter \in Adapters /\ IsFuncTyped(curFn) /\ curFn.nil ) =>
            /\ adapted.kind = "fault"
            /\ adapted.msg = IF adapter \in WithProbe /\ NilProbe(curProbe)
                                 THEN <<valNilMsg>>
                                 ELSE ErrorMsgOf(adapter, curProbe)
    /\ ( adapter \in Adapters /\ Accepted ) => ~adapted.f.nil

(***************************************************************************)
(* C4. A wrapping unary adapter (Filter, Map, Consumer, MapTo) invoked on  *)
(* an argument x whose runtime type converts to the callable's parameter   *)
(* type P gives the outcome of the callable on x converted to P: the       *)
(* callable is called once, with the converted x.  Where the conversion of *)
(* x itself panics (a slice shorter than the array type P), so does the    *)
(* adapter, and the callable is not called.                                *)
(***************************************************************************)
ExpectedOf(name, f, val, received) ==
    LET r == CallBody(f, received)
    IN  IF r.fault THEN Raised("body")
        ELSE CASE name = "Filter" -> Returned(Val("bool", r.val.v))
               [] name = "Map" -> Returned(r.val)
               [] name = "Supplier" -> Returned(r.val)
               [] name = "Consumer" -> ReturnedNothing
               [] name \in WithProbe -> ConvertResult(r.val, val.typ.name)

C4_ArgumentConverted ==
    ( /\ adapter \in Unary
      /\ adapted.kind = "wrapper"
      /\ ninv > 0
      /\ ArgConvertible(lastArg, curFn.typ.in[1]) )
    => LET P == curFn.typ.in[1]
           conv == Convert(lastArg, P).val
       IN  IF TooShort(lastArg, P)
               THEN outcome = Raised("convert") /\ calls = <<>>
           ELSE /\ KindOf(P) # "interface" => conv.typ = T(P)
                /\ P \in Numeric /\ lastArg.typ.name \in Numeric =>
                         conv.v = Wrap(lastArg.v, P)
                /\ calls = <<Called(curFn, <<conv>>)>>
                /\ outcome = ExpectedOf(adapter, curFn, curProbe, conv)

C4_Witness ==
    /\ adapter = "Filter"
    /\ curFn = FnVal(<<"int">>, <<"bool">>, FALSE, "lt3")
    /\ adapted.kind = "wrapper"
    /\ lastArg = Val("uint8", 1)
    /\ calls = <<Called(curFn, <<Val("int", 1)>>)>>
    /\ outcome = Returned(True)

(***************************************************************************)
(* C5. A callable of valid shape is adapted without fault whatever its     *)
(* parameter type.  A wrapping adapter invoked with an argument whose type *)
(* does not convert to the parameter type faults with the conversion fault *)
(* without calling the callable, and the conversion fault occurs in no     *)
(* other case.                                                             *)
(***************************************************************************)
ValidShape(name, f, val) ==
    /\ IsFuncTyped(f) /\ ~f.nil
    /\ NumIn(f.typ) = WantIn(name)
    /\ NumOut(f.typ) = WantOut(name)
    /\ name = "Filter" => KindOf(f.typ.out[1]) = "bool"
    /\ name \in WithProbe =>
            /\ ~NilProbe(val)
            /\ ConvertibleTo(f.typ.out[1], val.typ.name)

C5_ConversionFaultDeferred ==
    /\ ( adapter \in Adapters /\ ValidShape(adapter, curFn, curProbe) ) => Accepted
    /\ ( adapter \in Adapters /\ ninv > 0 /\ outcome.fault = "convert" ) =>
            /\ adapter \in Unary
            /\ adapted.kind = "wrapper"
            /\ ~ArgConvertible(lastArg, curFn.typ.in[1])
    /\ ( /\ adapter \in Unary
         /\ adapted.kind = "wrapper"
         /\ ninv > 0
         /\ ~ArgConvertible(lastArg, curFn.typ.in[1]) ) =>
            /\ outcome = Raised("convert")
            /\ calls = <<>>

\* C5 as amended: the conversion fault also occurs for an argument whose
\* type converts to the parameter type and whose value does not, a slice
\* shorter than the array type of the parameter; the callable is not
\* called then either.
C5_ConversionFaultByTypeOrValue ==
    /\ ( adapter \in Adapters /\ ValidShape(adapter, curFn, curProbe) ) => Accepted
    /\ ( adapter \in Adapters /\ ninv > 0 /\ outcome.fault = "convert" ) =>
            /\ adapter \in Unary
            /\ adapted.kind = "wrapper"
            /\ \/ ~ArgConvertible(lastArg, curFn.typ.in[1])
               \/ TooShort(lastArg, curFn.typ.in[1])
    /\ ( /\ adapter \in Unary
         /\ adapted.kind = "wrapper"
         /\ ninv > 0
         /\ \/ ~ArgConvertible(lastArg, curFn.typ.in[1])
            \/ TooShort(lastArg, curFn.typ.in[1]) ) =>
            /\ outcome = Raised("convert")
            /\ calls = <<>>

C5_Witness ==
    /\ adapter = "Map"
    /\ curFn = FnVal(<<"int">>, <<"int">>, FALSE, "dbl")
    /\ adapted.kind = "wrapper"
    /\ lastArg = Val("string", 50)
    /\ outcome = Raised("convert")
    /\ calls = <<>>

(***************************************************************************)
(* C6. MapTo and SupplierOf fault with "val cannot be nil" whenever the    *)
(* probe is untyped nil or a typed nil reference, whatever fn is.          *)
(***************************************************************************)
C6_NilProbeFirst ==
    ( adapter \in WithProbe /\ NilProbe(curProbe) ) =>
        adapted = Faulted(<<"val cannot be nil">>)

C6_Witness ==
    /\ adapter = "SupplierOf"
    /\ curProbe = NilPtr
    /\ curFn = NilValue
    /\ adapted = Faulted(<<"val cannot be nil">>)

(***************************************************************************)
(* C7. With a valid non-nil probe of type X, MapTo / SupplierOf fault with *)
(* the fixed message formatted with X exactly when fn is not a function,   *)
(* has the wrong arity or a result type that does not convert to X, and    *)
(* accept fn otherwise; the result's convertibility is settled then, so no *)
(* invocation faults on converting the result.                             *)
(***************************************************************************)
MalformedFor(name, f, val) ==
    \/ ~IsFuncTyped(f)
    \/ NumIn(f.typ) # WantIn(name)
    \/ NumOut(f.typ) # WantOut(name)
    \/ ~ConvertibleTo(f.typ.out[1], val.typ.name)

\* The claim as stated.
C7_ResultConvertibleOrFault ==
    ( adapter \in WithProbe /\ ~NilProbe(curProbe) ) =>
        /\ (adapted.kind = "fault") <=> MalformedFor(adapter, curFn, curProbe)
        /\ adapted.kind = "fault" => adapted.msg = ErrorMsgOf(adapter, curProbe)
        /\ adapted.kind # "fault" => Accepted
        /\ ninv > 0 => outcome.fault # "resconvert"

\* C7 as amended: a nil function reference faults with the fixed message
\* too, and an invocation faults on converting the result only when fn
\* returns a slice and X is an array type.
C7_ResultConvertibleOrNilFault ==
    ( adapter \in WithProbe /\ ~NilProbe(curProbe) ) =>
        /\ (adapted.kind = "fault") <=>
                \/ MalformedFor(adapter, curFn, curProbe)
                \/ curFn.nil
        /\ adapted.kind = "fault" => adapted.msg = ErrorMsgOf(adapter, curProbe)
        /\ adapted.kind # "fault" => Accepted
        /\ ( ninv > 0 /\ outcome.fault = "resconvert" ) =>
                /\ KindOf(curFn.typ.out[1]) = "slice"
                /\ KindOf(curProbe.typ.name) = "array"

C7_Witness ==
    /\ adapter = "MapTo"
    /\ curProbe = Val("int", 0)
    /\ curFn = FnVal(<<"string">>, <<"string">>, FALSE, "dbl")
    /\ adapted = Faulted(<<mapToErrorMsg, "int">>)

(***************************************************************************)
(* C8. Whatever MapTo returns without fault is a function of type          *)
(* func(interface{}) X, X the probe's type, so the caller's type assertion *)
(* to func(interface{}) X succeeds.                                        *)
(***************************************************************************)
C8_MapToReturnsAnyToX ==
    ( adapter = "MapTo" /\ Accepted ) =>
        /\ adapted.typ = FuncOf(<<"any">>, <<curProbe.typ.name>>)
        /\ ninv > 0 => outcome.fault # "cast"

(***************************************************************************)
(* C9. Round trip: what MapTo (SupplierOf) returned, cast back and         *)
(* invoked on an argument x that converts to fn's parameter type, gives    *)
(* fn's result on x converted to X.                                        *)
(***************************************************************************)
C9_RoundTrip ==
    ( /\ adapter \in WithProbe
      /\ Accepted
      /\ ninv > 0
      /\ adapter = "MapTo" => ArgConvertible(lastArg, curFn.typ.in[1]) )
    => outcome = ExpectedOf(adapter, curFn, curProbe,
                            IF adapter = "MapTo"
                                THEN Convert(lastArg, curFn.typ.in[1]).val
                                ELSE NilValue)

(***************************************************************************)
(* C10. On an argument on which no predicate faults, And is true iff every *)
(* predicate is true, Or is true iff some predicate is true, and Not is    *)
(* the negation of its predicate.                                          *)
(***************************************************************************)
\* The predicates the combinator was built from.
Preds == IF adapter = "Not" THEN <<curFn>> ELSE curFns

\* The outcome of the i-th predicate, adapted by Filter, on x.
PredOn(i, x) == InvokeAdapted(Filter(Preds[i]), x).out

C10_Connectives ==
    ( /\ adapter \in {"And", "Or", "Not"}
      /\ adapted.kind = "closure"
      /\ ninv > 0
      /\ \A i \in 1..Len(Preds) : PredOn(i, lastArg).kind = "value" )
    => LET holds(i) == PredOn(i, lastArg).val = True
       IN  outcome = Returned(
               CASE adapter = "And" ->
                        IF \A i \in 1..Len(Preds) : holds(i) THEN True ELSE False
                 [] adapter = "Or" ->
                        IF \E i \in 1..Len(Preds) : holds(i) THEN True ELSE False
                 [] adapter = "Not" ->
                        IF holds(1) THEN False ELSE True)

C10_Witness ==
    /\ adapter = "Or"
    /\ curFns = <<FnVal(<<"any">>, <<"bool">>, FALSE, "lt3"),
                  FnVal(<<"int">>, <<"bool">>, FALSE, "even")>>
    /\ lastArg = Val("int", 5)
    /\ outcome = Returned(False)
    /\ Len(calls) = 2

(***************************************************************************)
(* C11. And and Or invoke their predicates in the order they were passed   *)
(* and stop at the first decisive one (the first false for And, the first  *)
(* true for Or; a predicate that faults ends the invocation too): the      *)
(* callables reached are those of the predicates up to that one, in order, *)
(* and no later predicate is invoked, so a later predicate that would      *)
(* fault does not change the outcome.                                      *)
(***************************************************************************)
\* The i-th predicate ends the invocation on x.
Decisive(name, i, x) ==
    LET o == PredOn(i, x)
    IN  \/ o.kind = "fault"
        \/ name = "And" /\ o.val = False
        \/ name = "Or" /\ o.val = True

\* The index of the first decisive predicate, Len + 1 when there is none.
FirstDecisive(name, x) ==
    LET ds == {i \in 1..Len(Preds) : Decisive(name, i, x)}
    IN  IF ds = {} THEN Len(Preds) + 1
        ELSE CHOOSE i \in ds : \A j \in ds : i <= j

\* The calls the predicates i..d make on x, in order.
RECURSIVE CallsOfPreds(_, _, _)
CallsOfPreds(i, d, x) ==
    IF i > d \/ i > Len(Preds) THEN <<>>
    ELSE InvokeAdapted(Filter(Preds[i]), x).calls \o CallsOfPreds(i + 1, d, x)

C11_ShortCircuit ==
    ( adapter \in {"And", "Or"} /\ adapted.kind = "closure" /\ ninv > 0 ) =>
        LET d == FirstDecisive(adapter, lastArg)
        IN  /\ calls = CallsOfPreds(1, d, lastArg)
            /\ \A k \in 1..Len(calls) :
                    \E i \in 1..d : i <= Len(Preds) /\ calls[k].f = Preds[i]
            /\ d <= Len(Preds) => outcome = PredOn(d, lastArg)
            /\ d > Len(Preds) =>
                    outcome = Returned(IF adapter = "And" THEN True ELSE False)

\* And stops at its first predicate; the nil function after it would fault.
C11_Witness ==
    /\ adapter = "And"
    /\ curFns = <<FnVal(<<"int">>, <<"bool">>, FALSE, "ge0"),
                  FnVal(<<"any">>, <<"bool">>, TRUE, "lt3")>>
    /\ lastArg = Val("int", -1)
    /\ outcome = Returned(False)
    /\ calls = <<Called(curFns[1], <<Val("int", -1)>>)>>

(***************************************************************************)
(* C12. FilterAll(f1..fn) faults with Filter's fixed message exactly when  *)
(* Filter rejects at least one fi; otherwise it returns n predicates, the  *)
(* i-th being Filter(fi) and behaving as it.  And, Or and Not fault the    *)
(* same way when they are built, before any invocation, and otherwise      *)
(* close over all their predicates.                                        *)
(***************************************************************************)
C12_FilterAllOneToOne ==
    adapter \in {"FilterAll", "And", "Or", "Not"} =>
        LET rejected == \E i \in 1..Len(Preds) : Filter(Preds[i]).kind = "fault"
        IN  /\ (adapted.kind = "fault") <=> rejected
            /\ adapted.kind = "fault" =>
                    /\ adapted = Faulted(<<filterErrorMsg>>)
                    /\ ninv = 0 /\ outcome = NoOutcome /\ calls = <<>>
            /\ adapted.kind # "fault" =>
                    /\ adapted.kind = IF adapter = "FilterAll" THEN "list" ELSE "closure"
                    /\ Len(adapted.list) = Len(Preds)
                    /\ \A i \in 1..Len(Preds) : adapted.list[i] = Filter(Preds[i])
            /\ ( adapter = "FilterAll" /\ ninv > 0 ) =>
                    LET r == InvokeAdapted(Filter(curFns[lastElem]), lastArg)
                    IN  outcome = r.out /\ calls = r.calls

\* The test of FilterAll: the second of two predicates, on int8(-1).
C12_Witness ==
    /\ adapter = "FilterAll"
    /\ curFns = <<FnVal(<<"any">>, <<"bool">>, FALSE, "lt3"),
                  FnVal(<<"int">>, <<"bool">>, FALSE, "ge0")>>
    /\ Len(adapted.list) = 2
    /\ lastElem = 2
    /\ lastArg = Val("int8", -1)
    /\ outcome = Returned(False)

(***************************************************************************)
(* C13. IsNilable(v) is true iff v is untyped nil or the kind of its type  *)
(* is chan, func, interface, map, pointer or slice.  IsNil(v) is false for *)
(* every v that is not nilable, and for a nilable v it is true iff v is    *)
(* untyped nil or its reference is null; so IsNil(v) implies IsNilable(v). *)
(***************************************************************************)
NilableKinds == {"chan", "func", "interface", "map", "ptr", "slice"}

C13_NilAndNilable ==
    LET v == lastArg
        nilable == (~IsValid(v)) \/ (v.typ.kind \in NilableKinds)
    IN  /\ adapter = "IsNilable" => outcome = Returned(Bool(nilable))
        /\ adapter = "IsNil" =>
                /\ outcome = Returned(Bool(nilable /\ ((~IsValid(v)) \/ v.nil)))
                /\ outcome = Returned(True) => IsNilable(v)

\* A nil function is nil.
C13_Witness ==
    /\ adapter = "IsNil"
    /\ lastArg = FnVal(<<>>, <<>>, TRUE, "store")
    /\ outcome = Returned(True)

(***************************************************************************)
(* Vocabulary of the equality properties.                                  *)
(***************************************************************************)
Equalities == {"EqualTo", "DeepEqualTo"}

\* The predicate was built from curProbe and invoked on lastArg.
Compared == adapter \in Equalities /\ ninv > 0

\* w has a type, and it converts to the type of val.
ConvertsTo(w, val) == IsValid(w) /\ TypeConvertibleTo(w.typ, val.typ)

(***************************************************************************)
(* C14. For EqualTo and DeepEqualTo: built from the untyped nil, the       *)
(* predicate is true exactly for the untyped nil; built from a typed nil   *)
(* of type T, it is true iff the argument is a nil value of a type that    *)
(* converts to T, so it is false for the untyped nil and for a nil of a    *)
(* type that does not convert.                                             *)
(***************************************************************************)
C14_NilComparisons ==
    Compared =>
        /\ ~IsValid(curProbe) => outcome = Returned(Bool(~IsValid(lastArg)))
        /\ ( IsValid(curProbe) /\ curProbe.nil ) =>
                outcome = Returned(Bool(/\ IsValid(lastArg)
                                        /\ lastArg.nil
                                        /\ ConvertsTo(lastArg, curProbe)))

\* A nil of the named slice type equals the nil []int.
C14_Witness ==
    /\ adapter = "DeepEqualTo"
    /\ curProbe = NilOf("[]int")
    /\ lastArg = NilOf("IntSlice")
    /\ outcome = Returned(True)

(***************************************************************************)
(* C15. For a val that is not the untyped nil and an argument whose type   *)
(* does not convert to val's type (the untyped nil included) EqualTo and   *)
(* DeepEqualTo return false without fault; no construction and no          *)
(* invocation raises a conversion fault, whatever val and the argument.    *)
(***************************************************************************)
C15_InconvertibleIsFalse ==
    adapter \in Equalities =>
        /\ adapted.kind = "predicate"
        /\ outcome.fault # "convert"
        /\ ( ninv > 0 /\ IsValid(curProbe) /\ ~ConvertsTo(lastArg, curProbe) ) =>
                outcome = Returned(False)

(***************************************************************************)
(* C16. EqualTo is reflexive: EqualTo(v)(v) is true for every value v.     *)
(***************************************************************************)
C16_Reflexive ==
    ( adapter = "EqualTo" /\ ninv > 0 /\ lastArg = curProbe ) =>
        outcome = Returned(True)

(***************************************************************************)
(* C17. For a non-nil val of a sequence type that is not comparable,       *)
(* EqualTo(val)(w) is true only when w is the same instance as val, and    *)
(* false for another instance with equal contents; DeepEqualTo(val)(w) is  *)
(* true iff w, converted to val's type, is non-nil and has the contents of *)
(* val, whatever the instance.                                             *)
(***************************************************************************)
NonComparableSeq(val) ==
    /\ IsValid(val) /\ ~val.nil
    /\ val.typ.kind \in {"slice", "array"}
    /\ ~Comparable(val.typ)

\* w is val itself: the same storage with the same contents.
SameInstance(w, val) ==
    IsValid(w) /\ ~w.nil /\ w.v = val.v /\ w.elems = val.elems

C17_IdentityVersusStructure ==
    ( Compared /\ NonComparableSeq(curProbe) ) =>
        /\ adapter = "EqualTo" =>
                /\ outcome = Returned(True) => SameInstance(lastArg, curProbe)
                /\ ( /\ ConvertsTo(lastArg, curProbe)
                      /\ ~SameInstance(lastArg, curProbe)
                      /\ lastArg.elems = curProbe.elems ) => outcome = Returned(False)
        /\ adapter = "DeepEqualTo" =>
                outcome = Returned(Bool(/\ ConvertsTo(lastArg, curProbe)
                                        /\ ~lastArg.nil
                                        /\ lastArg.elems = curProbe.elems))

(***************************************************************************)
(* Vocabulary of the accessor properties.                                  *)
(***************************************************************************)
\* The element type of the container, and what the claims call its length.
ElemTyp == Elem(curColl.typ.name)
IsSeq == curColl.typ.kind \in {"array", "slice"}
IsMap == curColl.typ.kind = "map"

\* A default was supplied, and it converts to the element type.
HasDefalt == Len(curDefalt) > 0
DefaltConverts == HasDefalt /\ ArgConvertible(curDefalt[1], ElemTyp)

\* index < length, as numbers: the index is a uint.
IndexInBounds == (~curIndex.top) /\ (curIndex.low < SeqLen(curColl))

\* The entries of the map whose key is equal to the key given.
Bound ==
    {i \in 1..Len(curColl.elems) :
        /\ curKey.typ = T(KeyOf(curColl.typ.name))
        /\ curKey.v = curColl.elems[i].k}

(***************************************************************************)
(* C18. IndexOf faults with "slc must be a slice" when seq is neither an   *)
(* array nor a slice; otherwise it returns seq[index] when index < length, *)
(* whatever the default, else the default converted to the element type    *)
(* when one is supplied, else the zero value of the element type.          *)
(***************************************************************************)
C18_IndexOf ==
    adapter = "IndexOf" =>
        /\ ~IsSeq => outcome = Raised("slc must be a slice")
        /\ ( IsSeq /\ IndexInBounds ) =>
                outcome = Returned(ElemAt(curColl, curIndex.low))
        /\ ( IsSeq /\ ~IndexInBounds /\ DefaltConverts ) =>
                outcome = Returned(Convert(curDefalt[1], ElemTyp).val)
        /\ ( IsSeq /\ ~IndexInBounds /\ ~HasDefalt ) =>
                outcome = Returned(Zero(ElemTyp))

(***************************************************************************)
(* C19. ValueOfKey faults with "mp must be a map" when mapping is not a    *)
(* map; otherwise it returns the value bound to the key equal to key when  *)
(* there is one, whatever the default, else the default converted to the   *)
(* value type when one is supplied, else the zero value of the value type; *)
(* the order in which the map is iterated does not matter.                 *)
(***************************************************************************)
\* The value the lookup is to give when the call returns.
ExpectedLookup ==
    IF Bound # {}
        THEN LET i == CHOOSE i \in Bound : TRUE
             IN  Returned(Val(ElemTyp, curColl.elems[i].e))
    ELSE IF HasDefalt THEN Returned(Convert(curDefalt[1], ElemTyp).val)
    ELSE Returned(Zero(ElemTyp))

\* The claim as stated: a bound key is returned whatever the default.
C19_ValueOfKeyAnyDefault ==
    adapter = "ValueOfKey" =>
        /\ ~IsMap => outcome = Raised("mp must be a map")
        /\ ( IsMap /\ (Bound # {} \/ DefaltConverts \/ ~HasDefalt) ) =>
                outcome = ExpectedLookup

\* C19 as amended: provided the default, if one is supplied, converts to
\* the value type.
C19_ValueOfKey ==
    adapter = "ValueOfKey" =>
        /\ ~IsMap => outcome = Raised("mp must be a map")
        /\ ( IsMap /\ (DefaltConverts \/ ~HasDefalt) ) => outcome = ExpectedLookup

\* The key "2" of a map of two entries, with a default that is not used.
C19_Witness ==
    /\ adapter = "ValueOfKey"
    /\ Len(curColl.elems) = 2
    /\ curKey = Val("string", 50)
    /\ curDefalt = <<Val("int8", -1)>>
    /\ outcome = Returned(Val("int", 2))

(***************************************************************************)
(* C20. IndexOf and ValueOfKey convert a supplied default to the element   *)
(* type before the lookup: with a valid container, a default that does not *)
(* convert faults the call, also when the index is in bounds or the key is *)
(* present, and with a default that converts, or none, the call has no     *)
(* conversion fault.                                                       *)
(***************************************************************************)
C20_EagerDefault ==
    ( \/ adapter = "IndexOf" /\ IsSeq
      \/ adapter = "ValueOfKey" /\ IsMap ) =>
        /\ ( HasDefalt /\ ~DefaltConverts ) => outcome = Raised("convert")
        /\ ( DefaltConverts \/ ~HasDefalt ) => outcome.fault # "convert"

\* The index is in bounds, and the default is a string for a slice of int.
C20_Witness ==
    /\ adapter = "IndexOf"
    /\ curColl = SliceVal("[]int", 1, <<1>>)
    /\ curIndex = Uint(FALSE, 0)
    /\ curDefalt = <<Val("string", 50)>>
    /\ outcome = Raised("convert")


(***************************************************************************)
(* C26. For val of an integer type T and an argument w of another integer  *)
(* type, EqualTo(val)(w) and DeepEqualTo(val)(w) compare val with w        *)
(* converted to T, which wraps modulo 2^width(T): the result is true       *)
(* exactly when w is congruent to val modulo 2^width(T).  So               *)
(* EqualTo(int8 1)(int 257) is true and EqualTo(int 257)(int8 1) is false. *)
(***************************************************************************)
IntegerTyped(x) == IsValid(x) /\ x.typ.name \in Numeric

\* 2^width of the 8-bit types; 0 for int, which no value of the model
\* overflows.
Modulus(name) == IF name \in {"int8", "uint8"} THEN 256 ELSE 0

Congruent(m, n, name) ==
    IF Modulus(name) = 0 THEN m = n ELSE (m - n) % Modulus(name) = 0

C26_IntegerWrapping ==
    /\ ( /\ Compared
         /\ IntegerTyped(curProbe) /\ IntegerTyped(lastArg)
         /\ lastArg.typ # curProbe.typ ) =>
            outcome = Returned(Bool(Congruent(lastArg.v, curProbe.v,
                                              curProbe.typ.name)))
    /\ ( /\ Compared
         /\ curProbe = Val("int", 257) /\ lastArg = Val("int8", 1) ) =>
            outcome = Returned(False)

C26_Witness ==
    /\ adapter = "EqualTo"
    /\ curProbe = Val("int8", 1)
    /\ lastArg = Val("int", 257)
    /\ outcome = Returned(True)


(***************************************************************************)
(* C25. For every array or slice, every default that is absent or converts *)
(* to the element type, and every value of the unsigned index, values      *)
(* above the greatest signed integer included, IndexOf returns without     *)
(* fault; for an index >= length it returns the default or the zero value. *)
(***************************************************************************)
C25_IndexOfAnyIndex ==
    ( /\ adapter = "IndexOf"
      /\ IsSeq
      /\ (~HasDefalt) \/ DefaltConverts ) =>
        /\ outcome.kind = "value"
        /\ ~IndexInBounds =>
                outcome = IF HasDefalt
                              THEN Returned(Convert(curDefalt[1], ElemTyp).val)
                          ELSE Returned(Zero(ElemTyp))


(***************************************************************************)
(* C24. A wrapping unary adapter (Filter, Map, MapTo, Consumer) invoked    *)
(* with the untyped nil faults before the callable is called, also when    *)
(* the callable's parameter type (a pointer, an interface) could hold nil. *)
(***************************************************************************)
C24_UntypedNilArgumentFaults ==
    ( /\ adapter \in Unary
      /\ adapted.kind = "wrapper"
      /\ ninv > 0
      /\ lastArg = NilValue ) =>
        /\ outcome.kind = "fault"
        /\ calls = <<>>

C24_Witness ==
    /\ adapter = "Filter"
    /\ curFn = FnVal(<<"*int">>, <<"bool">>, FALSE, "lt3")
    /\ adapted.kind = "wrapper"
    /\ ninv > 0
    /\ lastArg = NilValue
    /\ outcome = Raised("convert")
    /\ calls = <<>>


(***************************************************************************)
(* C22. PanicOnError(err) does nothing when err is nil and otherwise       *)
(* faults with err itself as the payload; PanicOnError2(val, err) returns  *)
(* val unchanged when err is nil and otherwise faults with err, returning  *)
(* no value.                                                               *)
(***************************************************************************)
C22_PanicOnError ==
    /\ adapter = "PanicOnError" =>
            IF lastArg = NilValue THEN outcome = ReturnedNothing
            ELSE /\ outcome.kind = "fault"
                 /\ outcome.val = lastArg
    /\ adapter = "PanicOnError2" =>
            IF lastArg = NilValue THEN outcome = Returned(curProbe)
            ELSE /\ outcome.kind = "fault"
                 /\ outcome.val = lastArg

C22_Witness ==
    /\ adapter = "PanicOnError"
    /\ lastArg = Val("*SyntaxError", 1)
    /\ outcome.kind = "fault"
    /\ outcome.val = Val("*SyntaxError", 1)


(***************************************************************************)
(* C21. Ternary(cond, a, b) returns a when cond is true and b otherwise.   *)
(* TernaryOf(cond, supplierA, supplierB) adapts both suppliers with        *)
(* Supplier, so it faults as Supplier does, calling neither, when Supplier *)
(* rejects one of them; given two suppliers that can be called, it invokes *)
(* the selected one exactly once and the other one never, and returns the  *)
(* selected supplier's value.                                              *)
(***************************************************************************)
\* The one of the pair that cond selects, and the other.
Selected == IF lastArg = True THEN curFns[1] ELSE curFns[2]
Unselected == IF lastArg = True THEN curFns[2] ELSE curFns[1]

\* Supplier accepts f, and f can be called.
GoodSupplier(f) == IsFuncTyped(f) /\ ~f.nil /\ NumIn(f.typ) = 0 /\ NumOut(f.typ) = 1

C21_Ternary ==
    /\ adapter = "Ternary" => outcome = Returned(Selected)
    /\ ( /\ adapter = "TernaryOf"
         /\ GoodSupplier(curFns[1]) /\ GoodSupplier(curFns[2]) ) =>
            /\ calls = <<Called(Selected, <<>>)>>
            /\ \A i \in 1..Len(calls) :
                    Unselected # Selected => calls[i].f # Unselected
            /\ outcome = Returned(CallBody(Selected, NilValue).val)
    /\ ( /\ adapter = "TernaryOf"
         /\ \E i \in 1..2 : Supplier(curFns[i]).kind = "fault" ) =>
            /\ outcome = Raised(supplierErrorMsg)
            /\ calls = <<>>

C21_Witness ==
    /\ adapter = "TernaryOf"
    /\ lastArg = False
    /\ curFns = <<FnVal(<<>>, <<"int">>, FALSE, "one"),
                  FnVal(<<>>, <<"int">>, FALSE, "two")>>
    /\ calls = <<Called(curFns[2], <<>>)>>
    /\ outcome = Returned(Val("int", 2))


(***************************************************************************)
(* C23. Building an adapter (Filter, Map, MapTo, Supplier, SupplierOf,     *)
(* Consumer, FilterAll, And, Or, Not) calls no callable.  Each invocation  *)
(* of a wrapper that ends without fault calls the original callable        *)
(* exactly once, with the argument converted to the parameter type         *)
(* captured when the adapter was built.  An invocation changes nothing of  *)
(* the adapter: invoked again on the same argument it does what it did     *)
(* before.                                                                 *)
(***************************************************************************)
Constructors == Adapters \cup {"FilterAll", "And", "Or", "Not"}

\* What the callable f is to receive when the adapter is invoked on x.
Received(name, f, x) ==
    IF name \in {"Supplier", "SupplierOf"} THEN <<>>
    ELSE <<Convert(x, f.typ.in[1]).val>>

C23_Built == ( adapter \in Constructors /\ ninv = 0 ) => calls = <<>>

C23_CalledOnce ==
    /\ ( /\ adapter \in Adapters
         /\ adapted.kind = "wrapper"
         /\ ninv > 0
         /\ outcome.kind # "fault" ) =>
            /\ adapted.argTyp = (IF NumIn(curFn.typ) = 0 THEN ""
                                 ELSE curFn.typ.in[1])
            /\ calls = <<Called(curFn, Received(adapter, curFn, lastArg))>>
    /\ ( /\ adapter = "FilterAll"
         /\ adapted.kind = "list"
         /\ ninv > 0
         /\ adapted.list[lastElem].kind = "wrapper"
         /\ outcome.kind # "fault" ) =>
            calls = <<Called(curFns[lastElem],
                             Received("Filter", curFns[lastElem], lastArg))>>

C23_SameAgain ==
    ( /\ ninv > 0
      /\ ninv' = ninv + 1
      /\ lastArg' = lastArg
      /\ lastElem' = lastElem ) =>
        /\ adapted' = adapted
        /\ outcome' = outcome
        /\ calls' = calls

C23_Stateless == [](C23_Built /\ C23_CalledOnce) /\ [][C23_SameAgain]_vars

C23_Witness ==
    /\ adapter = "Map"
    /\ curFn = FnVal(<<"int">>, <<"int">>, FALSE, "dbl")
    /\ adapted.kind = "wrapper"
    /\ ninv = 2
    /\ lastArg = Val("uint8", 200)
    /\ calls = <<Called(curFn, <<Val("int", 200)>>)>>
    /\ outcome = Returned(Val("int", 400))

=============================================================================
